---- MODULE Spec2Model ----
(***************************************************************************)
(* HostedPluginLocalizationService                                         *)
(* (packages/plugin-ext/src/hosted/node/hosted-plugin-localization.ts).    *)
(*                                                                         *)
(* Strings are sequences of tokens: a token is either a separator ("/",    *)
(* ".", "_") or a word without separators, so that concatenation, suffix   *)
(* tests and key normalisation are computed, not assumed.  A path is a     *)
(* record [dir, name]: path.dirname and path.basename are its two fields   *)
(* and path.join(dir, name) builds it (names hold no "/").                 *)
(*                                                                         *)
(* An action is one turn of the JavaScript event loop: the completion of   *)
(* one awaited filesystem operation together with the synchronous code     *)
(* that follows it up to the next await.                                   *)
(***************************************************************************)
EXTENDS Integers, Sequences, FiniteSets, TLC

\* Number of times localizePlugin is called for the extension.
MaxRuns == 2
\* Number of language pack contributions in the input of deployLocalizations.
MaxContribs == 2

VARIABLES
    fs,          \* the extension's files: path -> JSON content
    languages,   \* localizationProvider.getAvailableLanguages()
    locObj,      \* localizationProvider.loadLocalization(language).translations
    loadFails,   \* languages for which loadLocalization raises
    readOnly,    \* directories in which writeJson raises
    run,         \* number of localizePlugin calls so far
    pc,          \* position of the localizePlugin call in progress
    nlsContent,  \* `nlsContent` of localizePackage
    li,          \* index of `language` in the loop of localizePackage
    out,         \* the JSON handed to the writeJson in progress
    files,       \* `files` of localizeFiles
    dirs,        \* directories whose readdir is in flight
    tasks,       \* the promises of localizeBundle / localizeEntry calls
    logged,      \* console.error calls of localizePlugin's catch
    unhandled,   \* promises rejected with nobody awaiting them
    wlog,        \* every completed writeJson
    loadlog,     \* every loadLocalization call
    readlog,     \* every completed readJson
    invoked,     \* runs in which localizeFiles was called
    started,     \* per run, the files handed to localizeBundle/localizeEntry, in order
    plugin,      \* argument of deployLocalizations
    addCalls     \* calls of localizationProvider.addLocalizations

envVars == <<languages, locObj, loadFails, readOnly>>
mainVars == <<run, pc, nlsContent, li, out, files, dirs>>
histVars == <<logged, unhandled, wlog, loadlog, readlog, invoked, started>>
deployVars == <<plugin, addCalls>>
vars == <<fs, envVars, mainVars, tasks, histVars, deployVars>>

----------------------------------------------------------------------------
\* String helpers.

EndsWith(s, suffix) ==
    /\ Len(s) >= Len(suffix)
    /\ SubSeq(s, Len(s) - Len(suffix) + 1, Len(s)) = suffix

\* Localization.transformKey: separators of a scope or file path become "_".
transformKey(key) ==
    [i \in 1..Len(key) |-> IF key[i] \in {"/", "."} THEN "_" ELSE key[i]]

\* Localization.localize: the translation when the key is present, else the default.
localize(localization, key, defaultValue) ==
    IF key \in DOMAIN localization THEN localization[key] ELSE defaultValue

pluginId == <<"myext">>

PackageNlsJson == <<"package", ".", "nls", ".", "json">>
NlsMetadataJson == <<"nls", ".", "metadata", ".", "json">>
DotNlsMetadataJson == <<".", "nls", ".", "metadata", ".", "json">>

Join(dir, name) == [dir |-> dir, name |-> name]

PackageDir == "root"
SubDirs(d) == IF d = "root" THEN {"lib", "out"} ELSE {}

----------------------------------------------------------------------------
\* File contents (parsed JSON).  `entries` and `files` are in Object.entries order.

Malformed == [kind |-> "malformed"]
PlainFile == [kind |-> "other"]
NoJson == [kind |-> "none"]

PackageNls ==
    [kind |-> "pkg",
     entries |-> << <<"title", <<"Hello">> >>, <<"desc", <<"World">> >> >>]

BundleMeta ==
    [kind |-> "bundle",
     files |-> << [fileKey |-> <<"src", "/", "a", ".", "ts">>,
                   keys |-> <<"k1", "k2">>,
                   messages |-> << <<"Msg1">>, <<"Msg2">> >>] >>]

EntryA ==
    [kind |-> "entry", filePath |-> <<"a", ".", "js">>,
     keys |-> <<"k1">>, messages |-> << <<"MsgA">> >>]

\* A second entry file whose filePath is that of EntryA.
EntryB ==
    [kind |-> "entry", filePath |-> <<"a", ".", "js">>,
     keys |-> <<"k1", "k2">>, messages |-> << <<"MsgB1">>, <<"MsgB2">> >>]

PackagePath == Join(PackageDir, PackageNlsJson)
BundlePath == Join("out", NlsMetadataJson)
EntryAPath == Join("out", <<"a", ".", "nls", ".", "metadata", ".", "json">>)
EntryBPath == Join("out", <<"b", ".", "nls", ".", "metadata", ".", "json">>)
MainJsPath == Join("lib", <<"main", ".", "js">>)

InputPaths == {PackagePath, BundlePath, EntryAPath, EntryBPath, MainJsPath}

\* The directory contents the extension is deployed with.
InitialFiles ==
    { [p \in S |-> c[p]] :
        S \in { T \in SUBSET InputPaths : MainJsPath \in T },
        c \in { f \in [InputPaths ->
                         {Malformed, PlainFile, PackageNls, BundleMeta, EntryA, EntryB}] :
                    /\ f[PackagePath] \in {PackageNls, Malformed}
                    /\ f[BundlePath] \in {BundleMeta, Malformed}
                    /\ f[EntryAPath] \in {EntryA, Malformed}
                    /\ f[EntryBPath] = EntryB
                    /\ f[MainJsPath] = PlainFile } }

HasPackage(f) == PackagePath \in DOMAIN f /\ f[PackagePath] = PackageNls

LanguageChoices == { <<>>, <<"de">>, <<"de", "fr">>, <<"metadata">> }
AllLanguages == {"de", "fr", "metadata"}

\* Translation keys a language pack may hold.
KeyTitle == pluginId \o <<"/", "package", "/", "title">>
KeyBundleFlat == pluginId \o <<"/", "src", "_", "a", "_", "ts", "/", "k1">>
KeyEntry1 == pluginId \o <<"/", "a", "_", "js", "/", "k1">>
KeyEntryRaw == pluginId \o <<"/", "a", ".", "js", "/", "k1">>
TranslatedChoices == { {}, {KeyTitle, KeyBundleFlat, KeyEntry1, KeyEntryRaw} }

Translation(language, key) == <<"tr", language>> \o key

NoPlugin == [deployed |-> TRUE, hasLocalizations |-> FALSE, localizations |-> <<>>]

\* The deployments explored: every directory content with every language
\* list; language packs with translations and failing provider or
\* filesystem calls are combined with the contents that reach them.
Init ==
    /\ fs \in InitialFiles
    /\ languages \in LanguageChoices
    /\ \E K \in TranslatedChoices :
          /\ locObj = [l \in AllLanguages |-> [k \in K |-> Translation(l, k)]]
          /\ K # {} => languages \in {<<"de">>, <<"de", "fr">>} /\ HasPackage(fs)
    /\ \E f \in { <<{}, {}>>, <<{"fr"}, {}>>, <<{}, {"out"}>> } :
          /\ loadFails = f[1]
          /\ readOnly = f[2]
          /\ f # <<{}, {}>> => languages = <<"de", "fr">> /\ HasPackage(fs) /\ locObj["de"] = <<>>
    /\ run = 0
    /\ pc = "idle"
    /\ nlsContent = NoJson
    /\ li = 0
    /\ out = NoJson
    /\ files = <<>>
    /\ dirs = {}
    /\ tasks = <<>>
    /\ logged = {}
    /\ unhandled = {}
    /\ wlog = {}
    /\ loadlog = {}
    /\ readlog = {}
    /\ invoked = {}
    /\ started = <<>>
    /\ plugin = NoPlugin
    /\ addCalls = <<>>

----------------------------------------------------------------------------
\* Filesystem and provider primitives.

pathExists(path) == path \in DOMAIN fs

\* fs after writeJson(path, content).
writeJson(path, content) ==
    [p \in DOMAIN fs \cup {path} |-> IF p = path THEN content ELSE fs[p]]

\* Paths this module has written so far.
WrittenPaths == { w.path : w \in wlog }

ReadRecord(by, path) == [by |-> by, path |-> path, generated |-> path \in WrittenPaths]

WriteRecord(by, language, path, content, source) ==
    [by |-> by, lang |-> language, path |-> path, content |-> content, source |-> source]

LoadRecord(by, language, path) == [by |-> by, lang |-> language, path |-> path]

\* File names in the order of the directory index.
DirectoryIndex ==
    << PackageNlsJson,
       <<"package", ".", "nls", ".", "de", ".", "json">>,
       <<"package", ".", "nls", ".", "fr", ".", "json">>,
       <<"package", ".", "nls", ".", "metadata", ".", "json">>,
       <<"a", ".", "js", ".", "nls", ".", "de", ".", "json">>,
       <<"a", ".", "js", ".", "nls", ".", "fr", ".", "json">>,
       <<"a", ".", "js", ".", "nls", ".", "metadata", ".", "json">>,
       <<"a", ".", "nls", ".", "metadata", ".", "json">>,
       <<"main", ".", "js">>,
       <<"nls", ".", "bundle", ".", "de", ".", "json">>,
       <<"nls", ".", "bundle", ".", "fr", ".", "json">>,
       <<"nls", ".", "bundle", ".", "metadata", ".", "json">>,
       NlsMetadataJson,
       <<"b", ".", "nls", ".", "metadata", ".", "json">> >>

Reverse(s) == [i \in 1..Len(s) |-> s[Len(s) + 1 - i]]

\* The files (not directories) of d as fs.promises.readdir may return
\* them: in index order or in the opposite order.
Dirents(d) ==
    LET present(name) == Join(d, name) \in DOMAIN fs
        names == SelectSeq(DirectoryIndex, present)
        forward == [i \in 1..Len(names) |-> Join(d, names[i])]
    IN {forward, Reverse(forward)}

----------------------------------------------------------------------------
\* localizePlugin and localizePackage.

PackageStep == [run |-> run, file |-> PackagePath]

PackageOutPath(language) ==
    Join(PackageDir, <<"package", ".", "nls", ".", language, ".", "json">>)

\* The nlsLocalization object built for one language (lines 62-66).
PackageLocalization(language, content) ==
    [kind |-> "pkgOut",
     entries |-> [i \in 1..Len(content.entries) |->
                    <<content.entries[i][1],
                      localize(locObj[language],
                               pluginId \o <<"/", "package", "/", content.entries[i][1]>>,
                               content.entries[i][2])>>]]

\* The catch block of localizePlugin: log with the plugin id and return.
CatchAndLog(where) ==
    /\ logged' = logged \cup {[run |-> run, pluginId |-> pluginId, where |-> where]}
    /\ pc' = "returned"

\* localizePackage returned true: localizePlugin calls localizeFiles, which
\* starts readdirRecursive(pluginPath, files).
CallLocalizeFiles ==
    /\ invoked' = invoked \cup {run}
    /\ files' = <<>>
    /\ dirs' = {PackageDir}
    /\ pc' = "list"

\* The for loop of localizePackage moves to the next language, or ends.
PackageLoopNext ==
    IF li < Len(languages)
    THEN /\ li' = li + 1
         /\ pc' = "pkgCheck"
         /\ UNCHANGED <<invoked, files, dirs>>
    ELSE /\ li' = 0
         /\ CallLocalizeFiles

Settled == \A t \in DOMAIN tasks : tasks[t].pc \in {"done", "failed"}

\* localizePlugin(plugin) is called; localizePackage runs up to its first await.
\* A later call is a later deployment of the extension, made once the
\* promises of the earlier one have settled.
LocalizePlugin ==
    /\ pc \in {"idle", "returned"}
    /\ Settled
    /\ run < MaxRuns
    /\ run' = run + 1
    /\ pc' = IF Len(languages) = 0 THEN "returned" ELSE "pkgExists"
    /\ UNCHANGED <<fs, envVars, nlsContent, li, out, files, dirs, tasks, histVars, deployVars>>

\* Variant of PkgPathExists in which localizePackage returns true although
\* package.nls.json is absent.
PkgPathExistsReturnsTrue ==
    /\ pc = "pkgExists"
    /\ IF pathExists(PackagePath)
       THEN /\ pc' = "pkgRead"
            /\ UNCHANGED <<files, dirs, invoked>>
       ELSE CallLocalizeFiles
    /\ UNCHANGED <<fs, envVars, run, nlsContent, li, out, tasks, logged, unhandled, wlog,
                   loadlog, readlog, started, deployVars>>

\* await fs.pathExists(nlsPath)
PkgPathExists ==
    /\ pc = "pkgExists"
    /\ pc' = IF pathExists(PackagePath) THEN "pkgRead" ELSE "returned"
    /\ UNCHANGED <<fs, envVars, run, nlsContent, li, out, files, dirs, tasks, histVars,
                   deployVars>>

\* await fs.readJson(nlsPath), then the first pathExists of the loop is issued.
PkgReadJson ==
    /\ pc = "pkgRead"
    /\ readlog' = readlog \cup {ReadRecord(PackageStep, PackagePath)}
    /\ IF fs[PackagePath].kind = "pkg"
       THEN /\ nlsContent' = fs[PackagePath]
            /\ li' = 1
            /\ pc' = "pkgCheck"
            /\ UNCHANGED logged
       ELSE /\ CatchAndLog("localizePackage")
            /\ UNCHANGED <<nlsContent, li>>
    /\ UNCHANGED <<fs, envVars, run, out, files, dirs, tasks, unhandled, wlog, loadlog,
                   invoked, started, deployVars>>

\* await fs.pathExists(nlsLocalizationPath); when missing, load the
\* localization, build nlsLocalization and issue writeJson.
PkgCheck ==
    /\ pc = "pkgCheck"
    /\ LET language == languages[li]
           path == PackageOutPath(language)
       IN IF pathExists(path)
          THEN /\ PackageLoopNext
               /\ UNCHANGED <<out, logged, loadlog>>
          ELSE /\ loadlog' = loadlog \cup {LoadRecord(PackageStep, language, path)}
               /\ IF language \in loadFails
                  THEN /\ CatchAndLog("localizePackage")
                       /\ UNCHANGED out
                  ELSE /\ out' = PackageLocalization(language, nlsContent)
                       /\ pc' = "pkgWrite"
                       /\ UNCHANGED logged
               /\ UNCHANGED <<li, invoked, files, dirs>>
    /\ UNCHANGED <<fs, envVars, run, nlsContent, tasks, unhandled, wlog, readlog, started,
                   deployVars>>

\* await fs.writeJson(nlsLocalizationPath, nlsLocalization)
PkgWrite ==
    /\ pc = "pkgWrite"
    /\ LET language == languages[li]
           path == PackageOutPath(language)
       IN IF path.dir \in readOnly
          THEN /\ CatchAndLog("localizePackage")
               /\ UNCHANGED <<fs, wlog, li, invoked, files, dirs>>
          ELSE /\ fs' = writeJson(path, out)
               /\ wlog' = wlog \cup {WriteRecord(PackageStep, language, path, out, nlsContent)}
               /\ PackageLoopNext
               /\ UNCHANGED logged
    /\ out' = NoJson
    /\ UNCHANGED <<envVars, run, nlsContent, tasks, unhandled, loadlog, readlog, started,
                   deployVars>>

----------------------------------------------------------------------------
\* localizeFiles and readdirRecursive.

TaskId(file) == [run |-> run, file |-> file]

NewTask(kind) == [kind |-> kind, pc |-> "read", li |-> 0, json |-> NoJson, out |-> NoJson]

\* Variant of ScanFrom without the `break` after localizeBundle.
RECURSIVE ScanWithoutBreak(_, _)
ScanWithoutBreak(list, i) ==
    IF i > Len(list) THEN <<>>
    ELSE IF list[i].name = NlsMetadataJson
         THEN << [kind |-> "bundle", file |-> list[i]] >> \o ScanWithoutBreak(list, i + 1)
         ELSE IF EndsWith(list[i].name, DotNlsMetadataJson)
              THEN << [kind |-> "entry", file |-> list[i]] >> \o ScanWithoutBreak(list, i + 1)
              ELSE ScanWithoutBreak(list, i + 1)

\* The for loop of localizeFiles over files[i..]: the calls it makes, in order.
RECURSIVE ScanFrom(_, _)
ScanFrom(list, i) ==
    IF i > Len(list) THEN <<>>
    ELSE IF list[i].name = NlsMetadataJson
         THEN << [kind |-> "bundle", file |-> list[i]] >>
         ELSE IF EndsWith(list[i].name, DotNlsMetadataJson)
              THEN << [kind |-> "entry", file |-> list[i]] >> \o ScanFrom(list, i + 1)
              ELSE ScanFrom(list, i + 1)

\* One fs.promises.readdir completes: its files are pushed in dirent order
\* and a readdir is issued for each of its subdirectories.
Readdir(d) ==
    /\ pc = "list"
    /\ d \in dirs
    /\ \E order \in Dirents(d) :
          files' = files \o order
    /\ dirs' = (dirs \ {d}) \cup SubDirs(d)
    /\ pc' = IF dirs' = {} THEN "scan" ELSE "list"
    /\ UNCHANGED <<fs, envVars, run, nlsContent, li, out, tasks, histVars, deployVars>>

\* readdirRecursive has resolved: the for loop runs without awaiting the
\* promises it creates, localizeFiles resolves and localizePlugin returns.
Scan ==
    /\ pc = "scan"
    /\ LET calls == ScanFrom(files, 1)
           ids == { TaskId(calls[i].file) : i \in 1..Len(calls) }
           kindOf(t) == (CHOOSE i \in 1..Len(calls) : calls[i].file = t.file)
       IN /\ tasks' = [t \in DOMAIN tasks \cup ids |->
                          IF t \in ids THEN NewTask(calls[kindOf(t)].kind) ELSE tasks[t]]
          /\ started' = [r \in DOMAIN started \cup {run} |->
                           IF r = run THEN calls ELSE started[r]]
    /\ files' = <<>>
    /\ pc' = "returned"
    /\ UNCHANGED <<fs, envVars, run, nlsContent, li, out, dirs, logged, unhandled, wlog,
                   loadlog, readlog, invoked, deployVars>>

----------------------------------------------------------------------------
\* localizeBundle and localizeEntry.

BundleOutPath(t, language) ==
    Join(t.file.dir, <<"nls", ".", "bundle", ".", language, ".", "json">>)

EntryOutPath(t, language) ==
    Join(t.file.dir, tasks[t].json.filePath \o <<".", "nls", ".", language, ".", "json">>)

OutPath(t, language) ==
    IF tasks[t].kind = "bundle" THEN BundleOutPath(t, language) ELSE EntryOutPath(t, language)

\* The `output` array of one entry (lines 99-104 and 122-127).
LocalizeMessages(language, nlsFileKey, entry) ==
    [i \in 1..Len(entry.keys) |->
        localize(locObj[language],
                 pluginId \o <<"/">> \o nlsFileKey \o <<"/", entry.keys[i]>>,
                 entry.messages[i])]

\* Variant of BundleLocalization that stores each output under the
\* normalized file key (bundle[nlsFileKey] = output).
BundleLocalizationNormalizedKeys(language, content) ==
    [kind |-> "bundleOut",
     files |-> [i \in 1..Len(content.files) |->
                  [fileKey |-> transformKey(content.files[i].fileKey),
                   output |-> LocalizeMessages(language,
                                               transformKey(content.files[i].fileKey),
                                               content.files[i])]]]

\* The `bundle` object built for one language (lines 96-106).
BundleLocalization(language, content) ==
    [kind |-> "bundleOut",
     files |-> [i \in 1..Len(content.files) |->
                  [fileKey |-> content.files[i].fileKey,
                   output |-> LocalizeMessages(language,
                                               transformKey(content.files[i].fileKey),
                                               content.files[i])]]]

\* The `output` array built for one language (lines 122-127).
EntryLocalization(language, content) ==
    [kind |-> "entryOut",
     output |-> LocalizeMessages(language, transformKey(content.filePath), content)]

TaskLocalization(t, language) ==
    IF tasks[t].kind = "bundle"
    THEN BundleLocalization(language, tasks[t].json)
    ELSE EntryLocalization(language, tasks[t].json)

\* The promise of t is rejected; nothing awaits it.
Reject(t, where) ==
    /\ tasks' = [tasks EXCEPT ![t].pc = "failed", ![t].out = NoJson]
    /\ unhandled' = unhandled \cup {[task |-> t, where |-> where]}

\* The for loop of t moves to the next language, or the promise resolves.
TaskLoopNext(t) ==
    tasks' = IF tasks[t].li < Len(languages)
             THEN [tasks EXCEPT ![t].li = @ + 1, ![t].pc = "check", ![t].out = NoJson]
             ELSE [tasks EXCEPT ![t].pc = "done", ![t].out = NoJson]

\* await fs.readJson(bundlePath) in localizeBundle.
BundleRead(t) ==
    /\ tasks[t].kind = "bundle"
    /\ tasks[t].pc = "read"
    /\ readlog' = readlog \cup {ReadRecord(t, t.file)}
    /\ IF fs[t.file].kind = "bundle"
       THEN /\ tasks' = IF Len(languages) = 0
                        THEN [tasks EXCEPT ![t].pc = "done"]
                        ELSE [tasks EXCEPT ![t].json = fs[t.file], ![t].li = 1,
                                           ![t].pc = "check"]
            /\ UNCHANGED unhandled
       ELSE Reject(t, "localizeBundle")
    /\ UNCHANGED <<fs, envVars, mainVars, logged, wlog, loadlog, invoked, started,
                   deployVars>>

\* await fs.readJson(entryPath) in localizeEntry; transformKey(entry.filePath)
\* raises when the JSON read has no filePath.
EntryRead(t) ==
    /\ tasks[t].kind = "entry"
    /\ tasks[t].pc = "read"
    /\ readlog' = readlog \cup {ReadRecord(t, t.file)}
    /\ IF fs[t.file].kind = "entry"
       THEN /\ tasks' = IF Len(languages) = 0
                        THEN [tasks EXCEPT ![t].pc = "done"]
                        ELSE [tasks EXCEPT ![t].json = fs[t.file], ![t].li = 1,
                                           ![t].pc = "check"]
            /\ UNCHANGED unhandled
       ELSE Reject(t, "localizeEntry")
    /\ UNCHANGED <<fs, envVars, mainVars, logged, wlog, loadlog, invoked, started,
                   deployVars>>

\* Variant of TaskCheck that calls loadLocalization before looking at the
\* result of pathExists.
TaskCheckLoadsFirst(t) ==
    /\ tasks[t].pc = "check"
    /\ LET language == languages[tasks[t].li]
           path == OutPath(t, language)
       IN /\ loadlog' = loadlog \cup {LoadRecord(t, language, path)}
          /\ IF language \in loadFails
             THEN Reject(t, "loadLocalization")
             ELSE /\ IF pathExists(path)
                     THEN TaskLoopNext(t)
                     ELSE tasks' = [tasks EXCEPT ![t].out = TaskLocalization(t, language),
                                                 ![t].pc = "write"]
                  /\ UNCHANGED unhandled
    /\ UNCHANGED <<fs, envVars, mainVars, logged, wlog, readlog, invoked, started,
                   deployVars>>

\* await fs.pathExists(nlsLocalizationPath); when missing, load the
\* localization, build the output and issue writeJson.
TaskCheck(t) ==
    /\ tasks[t].pc = "check"
    /\ LET language == languages[tasks[t].li]
           path == OutPath(t, language)
       IN IF pathExists(path)
          THEN /\ TaskLoopNext(t)
               /\ UNCHANGED <<unhandled, loadlog>>
          ELSE /\ loadlog' = loadlog \cup {LoadRecord(t, language, path)}
               /\ IF language \in loadFails
                  THEN Reject(t, "loadLocalization")
                  ELSE /\ tasks' = [tasks EXCEPT ![t].out = TaskLocalization(t, language),
                                                 ![t].pc = "write"]
                       /\ UNCHANGED unhandled
    /\ UNCHANGED <<fs, envVars, mainVars, logged, wlog, readlog, invoked, started,
                   deployVars>>

\* await fs.writeJson(nlsLocalizationPath, ...)
TaskWrite(t) ==
    /\ tasks[t].pc = "write"
    /\ LET language == languages[tasks[t].li]
           path == OutPath(t, language)
       IN IF path.dir \in readOnly
          THEN /\ Reject(t, "writeJson")
               /\ UNCHANGED <<fs, wlog>>
          ELSE /\ fs' = writeJson(path, tasks[t].out)
               /\ wlog' = wlog \cup {WriteRecord(t, language, path, tasks[t].out,
                                                 tasks[t].json)}
               /\ TaskLoopNext(t)
               /\ UNCHANGED unhandled
    /\ UNCHANGED <<envVars, mainVars, logged, loadlog, readlog, invoked, started,
                   deployVars>>

----------------------------------------------------------------------------

Next ==
    \/ LocalizePlugin
    \/ PkgPathExists
    \/ PkgReadJson
    \/ PkgCheck
    \/ PkgWrite
    \/ \E d \in dirs : Readdir(d)
    \/ Scan
    \/ \E t \in DOMAIN tasks : BundleRead(t)
    \/ \E t \in DOMAIN tasks : EntryRead(t)
    \/ \E t \in DOMAIN tasks : TaskCheck(t)
    \/ \E t \in DOMAIN tasks : TaskWrite(t)

Spec == Init /\ [][Next]_vars

----------------------------------------------------------------------------
\* deployLocalizations and buildLocalizations.

\* Variant of buildTranslationKey that leaves the scope as it is.
BuildTranslationKeyRawScope(id, scope, key) == id \o <<"/">> \o scope \o <<"/", key>>

\* `${pluginId}/${Localization.transformKey(scope)}/${key}`
buildTranslationKey(id, scope, key) ==
    id \o <<"/">> \o transformKey(scope) \o <<"/", key>>

\* translations[translationKey] = item
Assign(map, key, item) ==
    [k \in DOMAIN map \cup {key} |-> IF k = key THEN item ELSE map[k]]

\* for (const [key, item] of Object.entries(value)), from the k-th entry on.
RECURSIVE LoopItems(_, _, _, _, _)
LoopItems(map, id, scope, value, k) ==
    IF k > Len(value) THEN map
    ELSE LoopItems(Assign(map, buildTranslationKey(id, scope, value[k][1]), value[k][2]),
                   id, scope, value, k + 1)

\* for (const [scope, value] of Object.entries(translation.contents)), from the s-th on.
RECURSIVE LoopScopes(_, _, _)
LoopScopes(map, translation, s) ==
    IF s > Len(translation.contents) THEN map
    ELSE LoopScopes(LoopItems(map, translation.id, translation.contents[s][1],
                              translation.contents[s][2], 1),
                    translation, s + 1)

\* for (const translation of localization.translations), from the t-th on.
RECURSIVE LoopTranslations(_, _, _)
LoopTranslations(map, translations, t) ==
    IF t > Len(translations) THEN map
    ELSE LoopTranslations(LoopScopes(map, translations[t], 1), translations, t + 1)

buildLocalizations(localizations) ==
    [i \in 1..Len(localizations) |->
        [languageId |-> localizations[i].languageId,
         languageName |-> localizations[i].languageName,
         localizedLanguageName |-> localizations[i].localizedLanguageName,
         languagePack |-> TRUE,
         translations |-> LoopTranslations(<<>>, localizations[i].translations, 1)]]

\* deployLocalizations(plugin): one addLocalizations call whose arguments
\* are the spread of buildLocalizations(...), when contributes.localizations
\* is truthy (any array, also an empty one).
deployLocalizations ==
    /\ ~plugin.deployed
    /\ plugin' = [plugin EXCEPT !.deployed = TRUE]
    /\ addCalls' = IF plugin.hasLocalizations
                   THEN Append(addCalls, buildLocalizations(plugin.localizations))
                   ELSE addCalls
    /\ UNCHANGED <<fs, envVars, mainVars, tasks, histVars>>

\* Inputs of deployLocalizations.
ScopeSlash == <<"a", "/", "b">>
ScopeDot == <<"a", ".", "b">>

ContentsChoices ==
    { << <<ScopeSlash, << <<"k1", "v1">> >> >> >>,
      << <<ScopeSlash, << <<"k1", "v1">>, <<"k2", "v2">> >> >>,
         <<ScopeDot, << <<"k1", "v3">> >> >> >> }

TranslationSets == [id : {<<"ext">>, <<"other">>}, contents : ContentsChoices]

TranslationsChoices ==
    {<<>>} \cup { <<t>> : t \in TranslationSets }
           \cup { <<t, u>> : t \in TranslationSets, u \in TranslationSets }

Contributions ==
    { [languageId |-> l, languageName |-> <<"name", l>>,
       localizedLanguageName |-> <<"localized", l>>, translations |-> tr] :
        l \in {"de", "fr"}, tr \in TranslationsChoices }

SeqsUpTo(S, n) == UNION { [1..m -> S] : m \in 0..n }

PluginChoices ==
    { [deployed |-> FALSE, hasLocalizations |-> FALSE, localizations |-> <<>>] }
    \cup { [deployed |-> FALSE, hasLocalizations |-> TRUE, localizations |-> ls] :
             ls \in SeqsUpTo(Contributions, MaxContribs) }

InitDeploy ==
    /\ fs = <<>>
    /\ languages = <<>>
    /\ locObj = [l \in AllLanguages |-> <<>>]
    /\ loadFails = {}
    /\ readOnly = {}
    /\ run = 0
    /\ pc = "idle"
    /\ nlsContent = NoJson
    /\ li = 0
    /\ out = NoJson
    /\ files = <<>>
    /\ dirs = {}
    /\ tasks = <<>>
    /\ logged = {}
    /\ unhandled = {}
    /\ wlog = {}
    /\ loadlog = {}
    /\ readlog = {}
    /\ invoked = {}
    /\ started = <<>>
    /\ plugin \in PluginChoices
    /\ addCalls = <<>>

NextDeploy == deployLocalizations

SpecDeploy == InitDeploy /\ [][NextDeploy]_vars

----------------------------------------------------------------------------
\* C6: for an extension with no declared language packs (contributions
\* absent, or present but empty) deployLocalizations makes no
\* addLocalizations call.
C6_NoCallWithoutLanguagePacks ==
    (plugin.deployed /\ (~plugin.hasLocalizations \/ Len(plugin.localizations) = 0))
        => Len(addCalls) = 0

\* The flattened triples of a contribution, as <<t, s, k>> positions.
Triples(localization) ==
    UNION { UNION { { <<t, s, k>> :
                        k \in 1..Len(localization.translations[t].contents[s][2]) } :
                    s \in 1..Len(localization.translations[t].contents) } :
            t \in 1..Len(localization.translations) }

TripleKey(localization, p) ==
    LET tr == localization.translations[p[1]]
    IN tr.id \o <<"/">> \o transformKey(tr.contents[p[2]][1])
             \o <<"/", tr.contents[p[2]][2][p[3]][1]>>

TripleValue(localization, p) ==
    localization.translations[p[1]].contents[p[2]][2][p[3]][2]

\* p comes before q in iteration order.
Earlier(p, q) ==
    \/ p[1] < q[1]
    \/ p[1] = q[1] /\ p[2] < q[2]
    \/ p[1] = q[1] /\ p[2] = q[2] /\ p[3] < q[3]

\* C7: for n >= 1 declared contributions deployLocalizations makes exactly
\* one addLocalizations call with n Localization objects in declaration
\* order, each with languagePack = TRUE and the contribution's language
\* identifier and names; its translations hold exactly the keys
\* {translationId}/{transformKey(scope)}/{key} of the contribution's triples,
\* each with the value of the last triple (in iteration order) that
\* flattens to that key.
C7_RegistrationFlattening ==
    (plugin.deployed /\ plugin.hasLocalizations /\ Len(plugin.localizations) >= 1) =>
        /\ Len(addCalls) = 1
        /\ Len(addCalls[1]) = Len(plugin.localizations)
        /\ \A i \in 1..Len(plugin.localizations) :
             LET c == plugin.localizations[i]
                 o == addCalls[1][i]
             IN /\ o.languagePack = TRUE
                /\ o.languageId = c.languageId
                /\ o.languageName = c.languageName
                /\ o.localizedLanguageName = c.localizedLanguageName
                /\ DOMAIN o.translations = { TripleKey(c, p) : p \in Triples(c) }
                /\ \A p \in Triples(c) :
                     (\A q \in Triples(c) :
                         TripleKey(c, q) = TripleKey(c, p) => (q = p \/ Earlier(q, p)))
                         => o.translations[TripleKey(c, p)] = TripleValue(c, p)

\* Two contributions were registered, the second with two triples that
\* flatten to one key with different values.
C7_Witness ==
    /\ plugin.deployed
    /\ Len(plugin.localizations) = 2
    /\ Len(addCalls) = 1
    /\ \E p, q \in Triples(plugin.localizations[2]) :
          /\ Earlier(p, q)
          /\ TripleKey(plugin.localizations[2], p) = TripleKey(plugin.localizations[2], q)
          /\ TripleValue(plugin.localizations[2], p) # TripleValue(plugin.localizations[2], q)

----------------------------------------------------------------------------
\* Claims about localizePlugin.

Returned == pc = "returned" /\ run >= 1

TasksOf(r) == { t \in DOMAIN tasks : t.run = r }

\* C1: every error raised by the work of localizePlugin, the localizeBundle
\* and localizeEntry calls it starts included, is caught and logged inside
\* localizePlugin; none surfaces anywhere else.
C1_NoFailureEscapes == unhandled = {}

\* C2: once a translated output file exists no step writes to its path
\* again: no path is written more than once, within a run or across runs.
C2_WriteIfMissing ==
    \A w1, w2 \in wlog : w1.path = w2.path => w1 = w2

PackageWrites == { w \in wlog : w.by.file = PackagePath }

\* localizePackage raised in the current run.
PackageRaised == \E e \in logged : e.run = run /\ e.where = "localizePackage"

C3_SkipsWithoutPackageOrLanguages ==
    (~pathExists(PackagePath) \/ Len(languages) = 0) =>
        /\ PackageWrites = {}
        /\ invoked = {}
        /\ DOMAIN tasks = {}
        /\ DOMAIN started = {}
        /\ \A r \in readlog : r.path = PackagePath
        /\ pc \notin {"list", "scan"}

\* C3 as claimed: without package.nls.json or without languages nothing is
\* written and localizeFiles is not invoked; and localizeFiles is invoked
\* exactly when package.nls.json exists and a language is available.
C3_FilesInvokedIffPackageAndLanguages ==
    /\ C3_SkipsWithoutPackageOrLanguages
    /\ Returned => (run \in invoked <=> (pathExists(PackagePath) /\ Len(languages) > 0))

\* C3, amended: without package.nls.json or without languages nothing is
\* written and localizeFiles is not invoked; and localizeFiles is invoked
\* exactly when package.nls.json exists, a language is available and
\* localizePackage did not raise (malformed package.nls.json, failing
\* loadLocalization or writeJson).
C3_FilesInvokedIffPackageSucceeds ==
    /\ C3_SkipsWithoutPackageOrLanguages
    /\ Returned => (run \in invoked <=>
                      (pathExists(PackagePath) /\ Len(languages) > 0 /\ ~PackageRaised))

\* localizePlugin returned for an extension without package.nls.json while
\* languages were available.
C3_Witness ==
    /\ Returned
    /\ ~pathExists(PackagePath)
    /\ Len(languages) > 0
    /\ \E p \in DOMAIN fs : p.name = NlsMetadataJson

\* The value the claim expects at one position of a generated file.
Expected(language, key, default) ==
    IF key \in DOMAIN locObj[language] THEN locObj[language][key] ELSE default

ExpectedOutput(language, scope, entry, output) ==
    /\ Len(output) = Len(entry.keys)
    /\ \A i \in 1..Len(entry.keys) :
          output[i] = Expected(language,
                               pluginId \o <<"/">> \o transformKey(scope)
                                        \o <<"/", entry.keys[i]>>,
                               entry.messages[i])

\* C4: every generated file has the keys/positions of its source, and each
\* value is the translation of the key {extensionId}/package/{key} or
\* {extensionId}/{transformKey(fileKey or filePath)}/{keys[i]} when the
\* language's Localization Object has it, else the original string.
C4_TranslateOrFallBack ==
    \A w \in wlog :
        /\ w.source.kind = "pkg" =>
             /\ w.content.kind = "pkgOut"
             /\ Len(w.content.entries) = Len(w.source.entries)
             /\ \A i \in 1..Len(w.source.entries) :
                  /\ w.content.entries[i][1] = w.source.entries[i][1]
                  /\ w.content.entries[i][2] =
                        Expected(w.lang,
                                 pluginId \o <<"/", "package", "/", w.source.entries[i][1]>>,
                                 w.source.entries[i][2])
        /\ w.source.kind = "bundle" =>
             /\ w.content.kind = "bundleOut"
             /\ Len(w.content.files) = Len(w.source.files)
             /\ \A i \in 1..Len(w.source.files) :
                  /\ w.content.files[i].fileKey = w.source.files[i].fileKey
                  /\ ExpectedOutput(w.lang, w.source.files[i].fileKey, w.source.files[i],
                                    w.content.files[i].output)
        /\ w.source.kind = "entry" =>
             /\ w.content.kind = "entryOut"
             /\ ExpectedOutput(w.lang, w.source.filePath, w.source, w.content.output)
        /\ w.source.kind \in {"pkg", "bundle", "entry"}

\* nls.bundle.de.json was generated with a translated first message and
\* the original second message.
C4_Witness ==
    \E w \in wlog :
        /\ w.source.kind = "bundle"
        /\ w.lang = "de"
        /\ fs[w.path] = w.content
        /\ w.content.files[1].output[1] = Translation("de", KeyBundleFlat)
        /\ w.content.files[1].output[2] = <<"Msg2">>

\* The step `by` has a writeJson for `language` in flight.
WritePending(by, language) ==
    IF by.file = PackagePath
    THEN by.run = run /\ pc = "pkgWrite" /\ languages[li] = language
    ELSE tasks[by].pc = "write" /\ languages[tasks[by].li] = language

\* The step `by` ended with an error.
Raised(by) ==
    IF by.file = PackagePath
    THEN \E e \in logged : e.run = by.run
    ELSE tasks[by].pc = "failed"

\* C5: a step calls loadLocalization(lang) only when it found its output
\* file for lang missing; a step that finds the file present neither loads
\* nor writes; every load is followed by the step's write for that
\* language unless an error is raised.
C5_SkipShortCircuits ==
    /\ [][ /\ \A r \in loadlog' \ loadlog : ~pathExists(r.path)
           /\ \A w \in wlog' \ wlog : LoadRecord(w.by, w.lang, w.path) \in loadlog
         ]_vars
    /\ [](\A r \in loadlog :
             \/ \E w \in wlog : w.by = r.by /\ w.lang = r.lang /\ w.path = r.path
             \/ WritePending(r.by, r.lang)
             \/ Raised(r.by))

\* A localizeEntry or localizeBundle call of the second run completed
\* without loading or writing, its output files being present.
C5_Witness ==
    \E t \in DOMAIN tasks :
        /\ tasks[t].pc = "done"
        /\ Len(languages) > 0
        /\ \A r \in loadlog : r.by # t
        /\ \A w \in wlog : w.by # t
        /\ \A i \in 1..Len(languages) : pathExists(OutPath(t, languages[i]))
        /\ \E r \in loadlog : r.by.file = t.file

\* C8: no file this module wrote is later read by localizePackage,
\* localizeBundle or localizeEntry, or selected by the scan of
\* localizeFiles, in the same run or a later one.
C8_OutputsNeverInput ==
    /\ \A r \in readlog : ~r.generated
    /\ \A r \in DOMAIN started : \A i \in 1..Len(started[r]) :
          started[r][i].file \notin WrittenPaths

\* C9: when localizePlugin returns, every localizeBundle and localizeEntry
\* call started by the scan has completed or raised.
C9_RunToCompletion ==
    Returned => \A t \in TasksOf(run) : tasks[t].pc \in {"done", "failed"}

Range(s) == { s[i] : i \in 1..Len(s) }

Position(s, x) == CHOOSE i \in 1..Len(s) : s[i] = x

\* Index of the first bundle file of the list, or Len + 1.
FirstBundle(list) ==
    IF \E i \in 1..Len(list) : list[i].name = NlsMetadataJson
    THEN CHOOSE i \in 1..Len(list) :
            /\ list[i].name = NlsMetadataJson
            /\ \A j \in 1..(i - 1) : list[j].name # NlsMetadataJson
    ELSE Len(list) + 1

\* C10: the scan starts only when the recursive listing is complete (every
\* file listed exactly once); localizeBundle is started for at most one
\* file, the first listed one named nls.metadata.json; localizeEntry is
\* started, in listing order, for exactly the files ending with
\* .nls.metadata.json that precede it, and for no file after it.
C10_ScanSequencing ==
    /\ [](pc = "scan" =>
            /\ dirs = {}
            /\ \A i, j \in 1..Len(files) : files[i] = files[j] => i = j
            /\ Range(files) = DOMAIN fs)
    /\ [][ (DOMAIN tasks' # DOMAIN tasks \/ DOMAIN started' # DOMAIN started) =>
             /\ pc = "scan"
             /\ DOMAIN tasks' \ DOMAIN tasks = { TaskId(c.file) : c \in Range(started'[run]) }
             /\ LET calls == started'[run]
                    b == FirstBundle(files)
                IN /\ \A j, k \in 1..Len(calls) : calls[j].file = calls[k].file => j = k
                   /\ { c.file : c \in { d \in Range(calls) : d.kind = "bundle" } }
                         = { files[i] : i \in {b} \cap (1..Len(files)) }
                   /\ { c.file : c \in { d \in Range(calls) : d.kind = "entry" } }
                         = { files[i] : i \in { h \in 1..(b - 1) :
                                                  EndsWith(files[h].name, DotNlsMetadataJson) } }
                   /\ \A j, k \in 1..Len(calls) :
                         j < k => Position(files, calls[j].file) < Position(files, calls[k].file)
                   /\ \A t \in DOMAIN tasks' \ DOMAIN tasks :
                         tasks'[t].kind = calls[Position([i \in 1..Len(calls) |-> calls[i].file],
                                                         t.file)].kind
         ]_vars

\* A scan started localizeEntry for an entry file listed before the bundle
\* file and not for one listed after it.
C10_Witness ==
    \E r \in DOMAIN started :
        /\ Len(started[r]) = 2
        /\ started[r][1].kind = "entry"
        /\ started[r][2].kind = "bundle"
        /\ \E p \in DOMAIN fs :
              /\ fs[p].kind = "entry"
              /\ p # started[r][1].file

====
